---- MODULE Spec2Model ----
(***************************************************************************)
(* A model of the location search service of sohlost/cajoo: the search     *)
(* route (GET /api/search), its location extractor and its geocoding       *)
(* resolver.  Strings are sequences of one-character strings, so that      *)
(* trimming, lower-casing and the emphasis-marker pattern are computed as  *)
(* the code computes them.  Coordinates are in hundredths of a degree.     *)
(***************************************************************************)
EXTENDS Integers, Sequences, FiniteSets, TLC

\* ------------------------------------------------------------------------
\* Strings
\* ------------------------------------------------------------------------

UpperChars == <<"A","B","C","D","E","F","G","H","I","J","K","L","M","N","O","P","Q","R","S","T","U","V","W","X","Y","Z">>

LowerChars == <<"a","b","c","d","e","f","g","h","i","j","k","l","m","n","o","p","q","r","s","t","u","v","w","x","y","z">>

\* One character of String.prototype.toLowerCase.
toLowerChar(c) ==
  IF \E i \in 1..Len(UpperChars) : UpperChars[i] = c
  THEN LowerChars[CHOOSE i \in 1..Len(UpperChars) : UpperChars[i] = c]
  ELSE c

\* String.prototype.toLowerCase.
toLowerCase(s) == [i \in 1..Len(s) |-> toLowerChar(s[i])]

\* The characters String.prototype.trim strips.
Whitespace == {" "}

RECURSIVE trimStart(_)
trimStart(s) ==
  IF s # <<>> /\ Head(s) \in Whitespace THEN trimStart(Tail(s)) ELSE s

RECURSIVE trimEnd(_)
trimEnd(s) ==
  IF s # <<>> /\ s[Len(s)] \in Whitespace
  THEN trimEnd(SubSeq(s, 1, Len(s) - 1))
  ELSE s

\* String.prototype.trim.
trim(s) == trimEnd(trimStart(s))

\* ------------------------------------------------------------------------
\* The location extractor
\* ------------------------------------------------------------------------

\* The alternatives of the genericWords pattern.
genericWords ==
    { <<"t","h","e">>,
      <<"a","n","d">>,
      <<"o","r">>,
      <<"i","n">>,
      <<"a","t">>,
      <<"o","n">>,
      <<"n","e","a","r">>,
      <<"b","e","s","t">>,
      <<"g","o","o","d">>,
      <<"g","r","e","a","t">>,
      <<"p","o","p","u","l","a","r">>,
      <<"f","a","m","o","u","s">>,
      <<"t","o","p">>,
      <<"h","e","r","e">>,
      <<"t","h","e","r","e">>,
      <<"t","h","i","s">>,
      <<"t","h","a","t">>,
      <<"w","h","e","r","e">>,
      <<"w","h","a","t">>,
      <<"h","o","w">>,
      <<"w","h","e","n">>,
      <<"w","h","y">> }

\* The pattern without its i flag.
isGenericTextExactCase(text) == trim(text) \in genericWords

\* isGenericText: /^(the|and|...)$/i tested on text.trim().
isGenericText(text) == toLowerCase(trim(text)) \in genericWords

\* The first index j >= i with s[j] = "*", or Len(s) + 1.
RECURSIVE nextStar(_, _)
nextStar(s, i) ==
  IF i > Len(s) \/ s[i] = "*" THEN i ELSE nextStar(s, i + 1)

\* text.match(/\*\*([^*]+)\*\*/g): the matches, left to right, none overlapping
\* (<<>> stands for the null of a text without a match).
RECURSIVE matchBold(_, _)
matchBold(s, i) ==
  IF i + 4 > Len(s) THEN <<>>
  ELSE IF s[i] = "*" /\ s[i + 1] = "*"
       THEN LET j == nextStar(s, i + 2) IN
            IF j > i + 2 /\ j + 1 <= Len(s) /\ s[j + 1] = "*"
            THEN <<SubSeq(s, i, j + 1)>> \o matchBold(s, j + 2)
            ELSE matchBold(s, i + 1)
       ELSE matchBold(s, i + 1)

\* match.replace(/\*\*/g, '').
RECURSIVE replaceStars(_)
replaceStars(m) ==
  IF m = <<>> THEN <<>>
  ELSE IF Len(m) >= 2 /\ m[1] = "*" /\ m[2] = "*"
       THEN replaceStars(SubSeq(m, 3, Len(m)))
       ELSE <<Head(m)>> \o replaceStars(Tail(m))

InSeq(x, seq) == \E i \in 1..Len(seq) : seq[i] = x

\* An Array.prototype.push in place of the Set's add.
pushLocation(locations, location) == Append(locations, location)

\* Set.prototype.add on a Set kept in insertion order.
setAdd(locations, location) ==
  IF InSeq(location, locations) THEN locations ELSE Append(locations, location)

\* The body of the boldMatches.forEach callback.
addBoldLocation(locations, match) ==
  LET location == trim(replaceStars(match)) IN
  IF Len(location) > 2 /\ ~isGenericText(location)
  THEN setAdd(locations, location)
  ELSE locations

RECURSIVE forEachBold(_, _)
forEachBold(locations, matches) ==
  IF matches = <<>> THEN locations
  ELSE forEachBold(addBoldLocation(locations, Head(matches)), Tail(matches))

\* The cap of slice(0, 10).
MaxLocations == 10

\* Array.prototype.slice(0, n).
slice(seq, n) == SubSeq(seq, 1, IF Len(seq) < n THEN Len(seq) ELSE n)

\* A cap one too high.
sliceOneMore(locations) == slice(locations, MaxLocations + 1)

\* Array.from(locations).slice(0, 10).
sliceLocations(locations) == slice(locations, MaxLocations)

\* extractLocationsFromText.
extractLocationsFromText(text) ==
  sliceLocations(forEachBold(<<>>, matchBold(text, 1)))

\* ------------------------------------------------------------------------
\* State
\* ------------------------------------------------------------------------

VARIABLES
  \* the search route: the deployed handler, the request, the environment
  route, request, env,
  \* the handler's position and locals
  pc, locationContext, completion, results,
  \* geocodePlaces: its locals and loop position
  places, processedLocations, resultIdx, locations, locIdx,
  \* the response of the fetch awaited, the outbound calls made, the reply,
  \* and what console.error has logged
  fetched, calls, response, console,
  \* an answer text under construction and what the extractor made of it
  exText, exSpans, exFresh, exExtra, exPc, exOut,
  platform, searchQuery, isSearchExpanded, isLoading, searchResults,
  showResults, searchMarkers, searchPc, uiResponse

routeVars == <<route, request, env, pc, locationContext, completion, results,
               places, processedLocations, resultIdx, locations, locIdx,
               fetched, calls, response, console>>

exVars == <<exText, exSpans, exFresh, exExtra, exPc, exOut>>

uiVars == <<platform, searchQuery, isSearchExpanded, isLoading, searchResults,
           showResults, searchMarkers, searchPc, uiResponse>>

vars == <<routeVars, exVars, uiVars>>

\* ------------------------------------------------------------------------
\* Answer texts for the extractor
\* ------------------------------------------------------------------------

\* Distinct place names an answer may emphasise.
MaxFresh == 11

\* Further fragments of an answer: repeated, re-cased, padded, generic or
\* short spans, plain words, stray markers.
MaxExtra == 1

NameLetters == <<"a","b","c","d","e">>

\* The i-th place name: three letters, all names distinct.
PlaceName(i) ==
  <<"P", NameLetters[((i - 1) \div Len(NameLetters)) + 1],
         NameLetters[((i - 1) % Len(NameLetters)) + 1]>>

\* **span**
Bold(span) == <<"*","*">> \o span \o <<"*","*">>

ExtraKinds ==
  {"repeat", "recased", "padded", "generic", "shouted", "containing", "short",
   "plain", "star"}

\* The earlier names an extra fragment of a kind may take up: any for a
\* repeat, the first or the latest for a re-cased or padded one; the other
\* kinds take up none (0).
ExtraNames(kind, fresh) ==
  CASE kind = "repeat"               -> 1..fresh
    [] kind \in {"recased", "padded"} -> {1, fresh} \cap 1..fresh
    [] OTHER                         -> {0}

\* The span an extra fragment emphasises (none for a plain word or a marker).
ExtraSpan(kind, k) ==
  CASE kind = "repeat"  -> <<PlaceName(k)>>
    [] kind = "recased" -> <<toLowerCase(PlaceName(k))>>
    [] kind = "padded"  -> << <<" ">> \o PlaceName(k) \o <<" ">> >>
    [] kind = "generic" -> << <<"B","e","s","t">> >>
    [] kind = "shouted" -> << <<"N","E","A","R">> >>
    [] kind = "containing" -> << <<"B","e","s","t"," ","B","i","r","y","a","n","i">> >>
    [] kind = "short"   -> << <<" ","a","b"," ">> >>
    [] OTHER            -> <<>>

ExtraText(kind, k) ==
  CASE kind = "plain" -> <<"a","t">>
    [] kind = "star"  -> <<"*">>
    [] OTHER          -> Bold(ExtraSpan(kind, k)[1])

MaxSearches == 2

\* The map UI as mounted: the initial values of its state hooks, no search
\* started.
InitUIIdle ==
  /\ platform = "withMarkers"
  /\ searchQuery = <<>>
  /\ isSearchExpanded = FALSE
  /\ isLoading = FALSE
  /\ searchResults = <<>>
  /\ showResults = FALSE
  /\ searchMarkers = <<>>
  /\ searchPc = [k \in 1..MaxSearches |-> "idle"]
  /\ uiResponse = [k \in 1..MaxSearches |-> <<>>]

InitRouteIdle ==
  /\ route = "places"
  /\ request = [query |-> <<>>, lat |-> <<>>, lng |-> <<>>]
  /\ env = [PERPLEXITY_API_KEY |-> <<>>, NEXT_PUBLIC_GOOGLE_MAPS_API_KEY |-> <<>>]
  /\ pc = "idle"
  /\ locationContext = <<>>
  /\ completion = <<>>
  /\ results = <<>>
  /\ places = <<>>
  /\ processedLocations = {}
  /\ resultIdx = 0
  /\ locations = <<>>
  /\ locIdx = 0
  /\ fetched = <<>>
  /\ calls = <<>>
  /\ response = <<>>
  /\ console = <<>>

InitExtract ==
  /\ InitRouteIdle
  /\ exText = <<>>
  /\ exSpans = <<>>
  /\ exFresh = 0
  /\ exExtra = 0
  /\ exPc = "writing"
  /\ exOut = <<>>
  /\ InitUIIdle

\* The answer goes on with a place name not emphasised before.
WriteName ==
  /\ exPc = "writing"
  /\ exFresh < MaxFresh
  /\ exText' = exText \o Bold(PlaceName(exFresh + 1)) \o <<" ">>
  /\ exSpans' = Append(exSpans, PlaceName(exFresh + 1))
  /\ exFresh' = exFresh + 1
  /\ UNCHANGED <<exExtra, exPc, exOut, routeVars, uiVars>>

\* The answer goes on with another fragment.
WriteExtra ==
  /\ exPc = "writing"
  /\ exExtra < MaxExtra
  /\ \E kind \in ExtraKinds :
       \E k \in ExtraNames(kind, exFresh) :
         /\ exText' = exText \o ExtraText(kind, k) \o <<" ">>
         /\ exSpans' = exSpans \o ExtraSpan(kind, k)
  /\ exExtra' = exExtra + 1
  /\ UNCHANGED <<exFresh, exPc, exOut, routeVars, uiVars>>

\* extractLocationsFromText(text) is called on the answer.
Extract ==
  /\ exPc = "writing"
  /\ exOut' = extractLocationsFromText(exText)
  /\ exPc' = "extracted"
  /\ UNCHANGED <<exText, exSpans, exFresh, exExtra, routeVars, uiVars>>

NextExtract == WriteName \/ WriteExtra \/ Extract

ExtractSpec == InitExtract /\ [][NextExtract]_vars

\* ------------------------------------------------------------------------
\* The search route: requests, environment, provider responses
\* ------------------------------------------------------------------------

\* A value that may be absent (null, undefined): a query parameter, an
\* environment variable.
Null == [present |-> FALSE, value |-> <<>>]

Given(v) == [present |-> TRUE, value |-> v]

\* JavaScript truthiness of a string that may be absent.
truthy(p) == p.present /\ p.value # <<>>

\* p || ''
orEmpty(p) == IF truthy(p) THEN p.value ELSE <<>>

QueryValues == {Null, Given(<<>>), Given(<<" ">>), Given(<<" ","q">>)}

LatValues == {Null, Given(<<>>), Given(<<"1","5",".","3","8">>)}

LngValues == {Null, Given(<<>>), Given(<<"7","3",".","8","5">>)}

KeyValues == {Null, Given(<<>>), Given(<<"k">>)}

\* The outcomes of a fetch followed by response.json().
NetworkError == [threw |-> TRUE, ok |-> FALSE, parses |-> FALSE, data |-> <<>>]

NotOk == [threw |-> FALSE, ok |-> FALSE, parses |-> FALSE, data |-> <<>>]

BadJson == [threw |-> FALSE, ok |-> TRUE, parses |-> FALSE, data |-> <<>>]

\* data holds the parsed body, <<>> when there is none.
Json(d) == [threw |-> FALSE, ok |-> TRUE, parses |-> TRUE, data |-> <<d>>]

\* Answers in one completion.
MaxAnswers == 2

\* The content of a completion choice: a string, or another JSON value.
StringContent(t) == [isString |-> TRUE, text |-> t]

NonString == [isString |-> FALSE, text |-> <<>>]

AnswerTexts ==
  { <<"T","r","y"," ","i","t">>,
    Bold(<<"C","a","f","e">>),
    Bold(<<"c","a","f","e">>) \o <<" ">> \o Bold(<<"F","o","r","t">>),
    Bold(<<"F","o","r","t">>) \o <<",">> \o Bold(<<" ">> \o <<"C","a","f","e">>),
    Bold(<<"B","e","s","t">>) \o Bold(<<"a","b">>) }

Choices ==
  {[hasMessage |-> FALSE, content |-> NonString]}
  \cup {[hasMessage |-> TRUE, content |-> c] :
          c \in {NonString} \cup {StringContent(t) : t \in AnswerTexts}}

SeqsUpTo(S, n) == UNION {[1..m -> S] : m \in 0..n}

CompletionResponses ==
  {NetworkError, NotOk, BadJson, Json([hasChoices |-> FALSE, choices |-> <<>>])}
  \cup {Json([hasChoices |-> TRUE, choices |-> cs]) : cs \in SeqsUpTo(Choices, MaxAnswers)}

\* Results of the geocoding and place-search providers: coordinates in
\* hundredths of a degree, on the corners of the bounding box and one step
\* outside each of its sides.
ProviderResult(lat, lng, address, rating, id) ==
  [hasGeometry |-> TRUE, lat |-> lat, lng |-> lng,
   formatted_address |-> address, rating |-> rating, place_id |-> id]

InsideResults ==
  {ProviderResult(640, 6870, <<"M","G"," ","R","d">>, <<45>>, id) : id \in {"p1", "p2"}}
  \cup {ProviderResult(3760, 9725, <<>>, <<0>>, id) : id \in {"p1", "p2"}}

OutsideResults ==
  {ProviderResult(pt[1], pt[2], <<"M","G"," ","R","d">>, <<45>>, "p1") :
     pt \in {<<639, 6870>>, <<3761, 9725>>, <<640, 6869>>, <<3760, 9726>>}}

NoGeometry ==
  [hasGeometry |-> FALSE, lat |-> 0, lng |-> 0,
   formatted_address |-> <<>>, rating |-> <<>>, place_id |-> "p1"]

LookupResponses ==
  {NetworkError, NotOk, BadJson, Json([results |-> <<>>])}
  \cup {Json([results |-> <<r>>]) : r \in InsideResults \cup OutsideResults \cup {NoGeometry}}
  \cup {Json([results |-> <<ProviderResult(639, 6870, <<>>, <<>>, "p2"),
                            ProviderResult(640, 6870, <<>>, <<>>, "p2")>>])}

\* Address components of a reverse-geocoding result.
Component(type, name) == [types |-> {type}, long_name |-> name]

ReverseResponses ==
  {NetworkError, NotOk, BadJson, Json([results |-> <<>>]),
   Json([results |-> << [address_components |-> <<>>] >>]),
   Json([results |-> << [address_components |->
           <<Component("sublocality_level_1", <<"W","a","r","d"," ","5">>), Component("country", <<"I","n","d","i","a">>)>>] >>]),
   Json([results |-> << [address_components |->
           <<Component("sublocality", <<"B","a","n","e","r">>), Component("locality", <<"P","u","n","e">>),
             Component("administrative_area_level_1", <<"M","H">>),
             Component("country", <<"I","n","d","i","a">>)>>] >>])}

\* ------------------------------------------------------------------------
\* getLocationDescription
\* ------------------------------------------------------------------------

\* String.prototype.includes.
includes(s, sub) ==
  \E i \in 1..(Len(s) - Len(sub) + 1) : SubSeq(s, i, i + Len(sub) - 1) = sub

\* Array.prototype.join(', ').
RECURSIVE join(_)
join(parts) ==
  IF parts = <<>> THEN <<>>
  ELSE IF Len(parts) = 1 THEN parts[1]
  ELSE parts[1] \o <<",", " ">> \o join(Tail(parts))

\* `coordinates ${lat}, ${lng}`
coordinatesText(lat, lng) == <<"c","o","o","r","d","i","n","a","t","e","s"," ">> \o lat \o <<",", " ">> \o lng

\* The loop over the address components: the last component of each class
\* sets city, area, state or country.
RECURSIVE scanComponents(_, _)
scanComponents(acc, components) ==
  IF components = <<>> THEN acc
  ELSE LET c == Head(components)
           next ==
             IF "locality" \in c.types THEN [acc EXCEPT !.city = c.long_name]
             ELSE IF "sublocality_level_1" \in c.types \/ "sublocality" \in c.types
                  THEN [acc EXCEPT !.area = c.long_name]
             ELSE IF "administrative_area_level_1" \in c.types
                  THEN [acc EXCEPT !.state = c.long_name]
             ELSE IF "country" \in c.types THEN [acc EXCEPT !.country = c.long_name]
             ELSE acc
       IN scanComponents(next, Tail(components))

\* locationParts, as pushed.
locationParts(a) ==
  (IF a.area # <<>> /\ ~includes(toLowerCase(a.area), <<"w","a","r","d">>)
                    /\ ~includes(toLowerCase(a.area), <<"d","i","v","i","s","i","o","n">>)
   THEN <<a.area>> ELSE <<>>)
  \o (IF a.city # <<>> THEN <<a.city>> ELSE <<>>)
  \o (IF a.state # <<>> THEN <<a.state>> ELSE <<>>)
  \o (IF a.country # <<>> /\ a.country # <<"I","n","d","i","a">> THEN <<a.country>> ELSE <<>>)

\* What getLocationDescription's catch logs: fetch or response.json() threw.
getLocationDescriptionLog(resp) ==
  IF resp.threw \/ (resp.ok /\ ~resp.parses)
  THEN <<[message |-> "Error getting location description:", arg |-> <<>>]>>
  ELSE <<>>

\* A description that is the joined parts, also when there are none.
getLocationDescriptionNoFallback(lat, lng, resp) ==
  IF resp.threw \/ ~resp.ok \/ ~resp.parses THEN coordinatesText(lat, lng)
  ELSE LET data == resp.data[1] IN
       IF data.results = <<>> THEN coordinatesText(lat, lng)
       ELSE join(locationParts(scanComponents(
                   [city |-> <<>>, area |-> <<>>, state |-> <<>>, country |-> <<>>],
                   data.results[1].address_components)))

\* getLocationDescription(lat, lng), given what its fetch comes to.
getLocationDescription(lat, lng, resp) ==
  IF resp.threw \/ ~resp.ok \/ ~resp.parses THEN coordinatesText(lat, lng)
  ELSE LET data == resp.data[1] IN
       IF data.results = <<>> THEN coordinatesText(lat, lng)
       ELSE LET a == scanComponents(
                       [city |-> <<>>, area |-> <<>>, state |-> <<>>, country |-> <<>>],
                       data.results[1].address_components)
                generalLocation == join(locationParts(a))
            IN IF generalLocation # <<>> THEN generalLocation
               ELSE coordinatesText(lat, lng)

\* ------------------------------------------------------------------------
\* The geocoding resolver
\* ------------------------------------------------------------------------

INDIA_BOUNDS == [north |-> 3760, south |-> 640, east |-> 9725, west |-> 6870]

\* A check of the latitude alone.
isInIndiaLatOnly(lat, lng) ==
  lat >= INDIA_BOUNDS.south /\ lat <= INDIA_BOUNDS.north

\* isInIndia.
isInIndia(lat, lng) ==
  /\ lat >= INDIA_BOUNDS.south
  /\ lat <= INDIA_BOUNDS.north
  /\ lng >= INDIA_BOUNDS.west
  /\ lng <= INDIA_BOUNDS.east

\* The first result of a lookup response, <<>> when the lookup failed (fetch
\* threw, status not ok, body not JSON) or found nothing.
firstResult(resp) ==
  IF resp.threw \/ ~resp.ok \/ ~resp.parses THEN <<>>
  ELSE IF resp.data[1].results = <<>> THEN <<>>
  ELSE <<resp.data[1].results[1]>>

\* Whether a lookup throws inside its try: fetch or response.json() threw, or
\* the first result has no geometry to read.
lookupThrows(resp) ==
  \/ resp.threw
  \/ resp.ok /\ ~resp.parses
  \/ firstResult(resp) # <<>> /\ ~firstResult(resp)[1].hasGeometry

\* What the catch of tryGeocoding or tryPlacesSearch logs.
lookupLog(message, location, resp) ==
  IF lookupThrows(resp) THEN <<[message |-> message, arg |-> location]>> ELSE <<>>

\* place.rating || null (<<>> is null).
ratingOrNull(rating) == IF rating = <<>> \/ rating = <<0>> THEN <<>> ELSE rating

\* tryGeocoding(location, apiKey), given what its fetch comes to: <<>> is
\* null.  A result without geometry throws inside the try and is caught.
tryGeocoding(location, resp) ==
  LET first == firstResult(resp) IN
  IF first = <<>> THEN <<>>
  ELSE LET result == first[1] IN
       IF ~result.hasGeometry THEN <<>>
       ELSE IF isInIndia(result.lat, result.lng)
            THEN << [name |-> location,
                     lat |-> result.lat,
                     lng |-> result.lng,
                     address |-> IF result.formatted_address # <<>>
                                 THEN result.formatted_address ELSE location,
                     rating |-> <<>>,
                     place_id |-> result.place_id] >>
            ELSE <<>>

\* A place search that fills its place as the geocoding lookup does.
tryPlacesSearchAsGeocoding(location, resp) == tryGeocoding(location, resp)

\* tryPlacesSearch(location, userLat, userLng, apiKey), likewise.
tryPlacesSearch(location, resp) ==
  LET first == firstResult(resp) IN
  IF first = <<>> THEN <<>>
  ELSE LET place == first[1] IN
       IF ~place.hasGeometry THEN <<>>
       ELSE IF isInIndia(place.lat, place.lng)
            THEN << [name |-> location,
                     lat |-> place.lat,
                     lng |-> place.lng,
                     address |-> place.formatted_address,
                     rating |-> ratingOrNull(place.rating),
                     place_id |-> place.place_id] >>
            ELSE <<>>

\* ------------------------------------------------------------------------
\* GET /api/search
\* ------------------------------------------------------------------------

\* A test for the empty string alone.
queryMissingUntrimmed(query) == query = <<>>

\* !query.trim()
queryMissing(query) == trim(query) = <<>>

\* A test for an undefined variable alone.
keyUndefined(apiKey) == ~apiKey.present

\* !apiKey, of the completion provider's key in GET.
keyMissing(apiKey) == ~truthy(apiKey)

\* A test for an undefined variable alone.
mapsKeyUndefined(apiKey) == ~apiKey.present

\* !apiKey, of the maps key in geocodePlaces.
mapsKeyMissing(apiKey) == ~truthy(apiKey)

\* lat || lng
eitherCoordinate(lat, lng) == truthy(lat) \/ truthy(lng)

\* lat && lng
hasCoordinates(lat, lng) == truthy(lat) /\ truthy(lng)

\* NextResponse.json({ error }, { status }).
ErrorResponse(status, message) ==
  [status |-> status, error |-> message,
   hasResults |-> FALSE, results |-> <<>>, hasPlaces |-> FALSE, places |-> <<>>]

\* NextResponse.json({ results }) and NextResponse.json({ results, places }).
OkResponse(res, hasPlaces, pl) ==
  [status |-> 200, error |-> "",
   hasResults |-> TRUE, results |-> res, hasPlaces |-> hasPlaces, places |-> pl]

Call(kind, arg) == [kind |-> kind, arg |-> arg]

\* An entry of console.error.
Logged(message, arg) == [message |-> message, arg |-> arg]

InitRoute ==
  /\ route \in {"basic", "places"}
  /\ request \in [query : QueryValues, lat : LatValues, lng : LngValues]
  /\ env \in [PERPLEXITY_API_KEY : KeyValues, NEXT_PUBLIC_GOOGLE_MAPS_API_KEY : KeyValues]
  /\ pc = "start"
  /\ locationContext = <<>>
  /\ completion = <<>>
  /\ results = <<>>
  /\ places = <<>>
  /\ processedLocations = {}
  /\ resultIdx = 0
  /\ locations = <<>>
  /\ locIdx = 0
  /\ fetched = <<>>
  /\ calls = <<>>
  /\ response = <<>>
  /\ console = <<>>

Init ==
  /\ InitRoute
  /\ exText = <<>>
  /\ exSpans = <<>>
  /\ exFresh = 0
  /\ exExtra = 0
  /\ exPc = "idle"
  /\ exOut = <<>>
  /\ InitUIIdle

resolverVars == <<places, processedLocations, resultIdx, locations, locIdx>>

\* The handler returns a response.
Respond(r) ==
  /\ response' = <<r>>
  /\ pc' = "done"

\* GET up to its first await: the validation of the query and of the
\* completion provider's key, then the fetch of getLocationDescription (with
\* coordinates, in the route that reads them) or that of the completion.
GETStart ==
  /\ pc = "start"
  /\ LET query == orEmpty(request.query) IN
     IF queryMissing(query)
     THEN /\ Respond(ErrorResponse(400, "No query provided."))
          /\ UNCHANGED <<calls, console>>
     ELSE IF keyMissing(env.PERPLEXITY_API_KEY)
     THEN /\ Respond(ErrorResponse(500, "Server configuration error."))
          /\ console' = Append(console, Logged("Perplexity API key not provided", <<>>))
          /\ UNCHANGED calls
     ELSE IF route = "places" /\ hasCoordinates(request.lat, request.lng)
     THEN /\ calls' = Append(calls, Call("reverse",
                        request.lat.value \o <<",">> \o request.lng.value))
          /\ pc' = "awaitReverse"
          /\ UNCHANGED <<response, console>>
     ELSE /\ calls' = Append(calls, Call("completion", <<>>))
          /\ pc' = "awaitCompletion"
          /\ UNCHANGED <<response, console>>
  /\ UNCHANGED <<route, request, env, locationContext, completion, results,
                 resolverVars, fetched, exVars, uiVars>>

ResponsesFor(at) ==
  CASE at = "awaitReverse"    -> ReverseResponses
    [] at = "awaitCompletion" -> CompletionResponses
    [] at = "awaitGeocoding"  -> LookupResponses
    [] at = "awaitPlaces"     -> LookupResponses
    [] OTHER                  -> {}

\* The fetch awaited settles: the provider answers, or the call fails.
ProviderResponds ==
  /\ fetched = <<>>
  /\ \E r \in ResponsesFor(pc) : fetched' = <<r>>
  /\ UNCHANGED <<route, request, env, pc, locationContext, completion, results,
                 resolverVars, calls, response, console, exVars, uiVars>>

\* GET after getLocationDescription: the location context, then the fetch of
\* the completion.
ReverseReturn ==
  /\ pc = "awaitReverse"
  /\ fetched # <<>>
  /\ locationContext' =
       getLocationDescription(request.lat.value, request.lng.value, fetched[1])
  /\ calls' = Append(calls, Call("completion", locationContext'))
  /\ pc' = "awaitCompletion"
  /\ fetched' = <<>>
  /\ console' = console \o getLocationDescriptionLog(fetched[1])
  /\ UNCHANGED <<route, request, env, completion, results, resolverVars,
                 response, exVars, uiVars>>

\* perplexityData?.choices?.map(choice => choice.message?.content) || [], of
\* the route without places: the content of a choice without a message is
\* undefined.
mapChoicesOptional(data) ==
  IF ~data.hasChoices THEN <<>>
  ELSE [i \in 1..Len(data.choices) |->
          IF data.choices[i].hasMessage THEN data.choices[i].content ELSE NonString]

\* perplexityData?.choices?.map(choice => choice.message.content) || []
mapChoices(data) ==
  IF ~data.hasChoices THEN <<>>
  ELSE [i \in 1..Len(data.choices) |-> data.choices[i].content]

\* A map that reads no content through a missing message.
mapNeverThrows(data) == FALSE

\* choice.message.content throws on a choice without a message.
mapThrows(data) ==
  data.hasChoices /\ \E i \in 1..Len(data.choices) : ~data.choices[i].hasMessage

\* A completion whose every failure lands in the catch.
completionThrowsOrFails(resp) == resp.threw \/ ~resp.ok \/ ~resp.parses

\* The completion's fetch or its perplexityResponse.json() throws into GET's
\* catch; the body is parsed only after the status was found ok.
completionThrows(resp) == resp.threw \/ (resp.ok /\ ~resp.parses)

\* GET after the completion's fetch: the error replies, the results, and
\* geocodePlaces up to its loop (its key check, its empty locals).
CompletionReturn ==
  /\ pc = "awaitCompletion"
  /\ fetched # <<>>
  /\ completion' = fetched
  /\ fetched' = <<>>
  /\ LET resp == fetched[1] IN
     IF completionThrows(resp)
     THEN /\ Respond(ErrorResponse(500, "Internal server error."))
          /\ console' = Append(console, Logged("Error in /api/search:", <<>>))
          /\ UNCHANGED <<results, resolverVars>>
     ELSE IF ~resp.ok
     THEN /\ Respond(ErrorResponse(500, "Failed to fetch results."))
          /\ console' = Append(console, Logged("Perplexity API request failed:", <<>>))
          /\ UNCHANGED <<results, resolverVars>>
     ELSE IF route = "basic"
     THEN /\ results' = mapChoicesOptional(resp.data[1])
          /\ Respond(OkResponse(results', FALSE, <<>>))
          /\ UNCHANGED <<resolverVars, console>>
     ELSE IF mapThrows(resp.data[1])
     THEN /\ Respond(ErrorResponse(500, "Internal server error."))
          /\ console' = Append(console, Logged("Error in /api/search:", <<>>))
          /\ UNCHANGED <<results, resolverVars>>
     ELSE /\ results' = mapChoices(resp.data[1])
          /\ IF hasCoordinates(request.lat, request.lng) /\ Len(results') > 0
             THEN IF mapsKeyMissing(env.NEXT_PUBLIC_GOOGLE_MAPS_API_KEY)
                  THEN /\ Respond(OkResponse(results', TRUE, <<>>))
                       /\ console' = Append(console,
                                        Logged("Google Maps API key not found", <<>>))
                       /\ UNCHANGED resolverVars
                  ELSE /\ places' = <<>>
                       /\ processedLocations' = {}
                       /\ resultIdx' = 1
                       /\ pc' = "nextResult"
                       /\ UNCHANGED <<locations, locIdx, response, console>>
             ELSE /\ Respond(OkResponse(results', TRUE, <<>>))
                  /\ UNCHANGED <<resolverVars, console>>
  /\ UNCHANGED <<route, request, env, locationContext, calls, exVars, uiVars>>

\* geocodePlaces, the head of its outer loop: the locations of the next
\* result, or the return of placesWithCoords and GET's reply.  The extractor
\* is called outside the try: on a result that is no string,
\* text.substring throws through geocodePlaces into GET's catch.
NextResult ==
  /\ pc = "nextResult"
  /\ IF resultIdx > Len(results)
     THEN /\ Respond(OkResponse(results, TRUE, places))
          /\ UNCHANGED <<locations, locIdx, console>>
     ELSE IF ~results[resultIdx].isString
     THEN /\ Respond(ErrorResponse(500, "Internal server error."))
          /\ console' = Append(console, Logged("Error in /api/search:", <<>>))
          /\ UNCHANGED <<locations, locIdx>>
     ELSE /\ locations' = extractLocationsFromText(results[resultIdx].text)
          /\ locIdx' = 1
          /\ pc' = "nextLocation"
          /\ UNCHANGED <<response, console>>
  /\ UNCHANGED <<route, request, env, locationContext, completion, results,
                 places, processedLocations, resultIdx, fetched, calls, exVars, uiVars>>

\* A key that keeps the letter case.
locationKeyExactCase(location) == trim(location)

\* location.toLowerCase().trim()
locationKey(location) == trim(toLowerCase(location))

\* geocodePlaces, the head of its inner loop: past the last location, the
\* next result; a location already processed or too short is skipped; another
\* is marked processed and tryGeocoding sends its fetch.
NextLocation ==
  /\ pc = "nextLocation"
  /\ IF locIdx > Len(locations)
     THEN /\ resultIdx' = resultIdx + 1
          /\ pc' = "nextResult"
          /\ UNCHANGED <<locIdx, processedLocations, calls>>
     ELSE LET location == locations[locIdx] IN
          IF locationKey(location) \in processedLocations \/ Len(location) < 3
          THEN /\ locIdx' = locIdx + 1
               /\ UNCHANGED <<pc, resultIdx, processedLocations, calls>>
          ELSE /\ processedLocations' = processedLocations \cup {locationKey(location)}
               /\ calls' = Append(calls, Call("geocoding", location))
               /\ pc' = "awaitGeocoding"
               /\ UNCHANGED <<locIdx, resultIdx>>
  /\ UNCHANGED <<route, request, env, locationContext, completion, results,
                 places, locations, fetched, response, console, exVars, uiVars>>

\* Every candidate's first lookup is its only one.
noFallback(geocodingResult) == "nextLocation"

\* geocodePlaces after tryGeocoding: with a result, push and continue; with
\* none, tryPlacesSearch.
afterGeocoding(geocodingResult) ==
  IF geocodingResult # <<>> THEN "nextLocation" ELSE "awaitPlaces"

\* geocodePlaces after tryGeocoding returns.
TryGeocodingReturn ==
  /\ pc = "awaitGeocoding"
  /\ fetched # <<>>
  /\ fetched' = <<>>
  /\ LET location == locations[locIdx]
         geocodingResult == tryGeocoding(location, fetched[1])
     IN /\ pc' = afterGeocoding(geocodingResult)
        /\ places' = places \o geocodingResult
        /\ console' = console \o lookupLog("Geocoding API error", location, fetched[1])
        /\ IF pc' = "awaitPlaces"
           THEN /\ calls' = Append(calls, Call("places",
                       location \o <<" ","n","e","a","r"," ">> \o request.lat.value
                                \o <<",">> \o request.lng.value))
                /\ UNCHANGED locIdx
           ELSE /\ locIdx' = locIdx + 1
                /\ UNCHANGED calls
  /\ UNCHANGED <<route, request, env, locationContext, completion, results,
                 processedLocations, resultIdx, locations, response, exVars, uiVars>>

\* geocodePlaces after tryPlacesSearch returns: push a result, and on to the
\* next location.
TryPlacesSearchReturn ==
  /\ pc = "awaitPlaces"
  /\ fetched # <<>>
  /\ fetched' = <<>>
  /\ places' = places \o tryPlacesSearch(locations[locIdx], fetched[1])
  /\ console' = console \o lookupLog("Places API error", locations[locIdx], fetched[1])
  /\ locIdx' = locIdx + 1
  /\ pc' = "nextLocation"
  /\ UNCHANGED <<route, request, env, locationContext, completion, results,
                 processedLocations, resultIdx, locations, calls, response, exVars, uiVars>>

\* ------------------------------------------------------------------------
\* The reverse-geocoding step on its own, over more outcomes of its lookup
\* ------------------------------------------------------------------------

MaxComponents == 3

ReverseComponents ==
  {Component("locality", <<"P","u","n","e">>),
   Component("locality", <<>>),
   Component("sublocality", <<"B","a","n","e","r">>),
   Component("sublocality_level_1", <<"W","a","r","d"," ","5">>),
   Component("sublocality", <<"D","I","V","I","S","I","O","N">>),
   Component("administrative_area_level_1", <<"M","H">>),
   Component("country", <<"I","n","d","i","a">>),
   Component("country", <<"N","e","p","a","l">>),
   Component("route", <<"M","G"," ","R","d">>)}

ReverseOutcomes ==
  {NetworkError, NotOk, BadJson, Json([results |-> <<>>])}
  \cup {Json([results |-> << [address_components |-> cs] >>]) :
          cs \in SeqsUpTo(ReverseComponents, MaxComponents)}

\* GET with a query, the completion provider's key and both coordinates, at
\* the await of getLocationDescription's fetch.
InitReverse ==
  /\ route = "places"
  /\ request \in [query : {Given(<<" ","q">>)},
                  lat : {v \in LatValues : truthy(v)},
                  lng : {v \in LngValues : truthy(v)}]
  /\ env \in [PERPLEXITY_API_KEY : {Given(<<"k">>)},
              NEXT_PUBLIC_GOOGLE_MAPS_API_KEY : KeyValues]
  /\ pc = "awaitReverse"
  /\ locationContext = <<>>
  /\ completion = <<>>
  /\ results = <<>>
  /\ places = <<>>
  /\ processedLocations = {}
  /\ resultIdx = 0
  /\ locations = <<>>
  /\ locIdx = 0
  /\ fetched = <<>>
  /\ calls = <<Call("reverse", request.lat.value \o <<",">> \o request.lng.value)>>
  /\ response = <<>>
  /\ console = <<>>
  /\ exText = <<>>
  /\ exSpans = <<>>
  /\ exFresh = 0
  /\ exExtra = 0
  /\ exPc = "idle"
  /\ exOut = <<>>
  /\ InitUIIdle

\* The fetch of getLocationDescription settles.
ReverseResponds ==
  /\ pc = "awaitReverse"
  /\ fetched = <<>>
  /\ \E r \in ReverseOutcomes : fetched' = <<r>>
  /\ UNCHANGED <<route, request, env, pc, locationContext, completion, results,
                 resolverVars, calls, response, console, exVars, uiVars>>

NextReverse == ReverseResponds \/ ReverseReturn

ReverseSpec == InitReverse /\ [][NextReverse]_vars

Next ==
  \/ GETStart
  \/ ProviderResponds
  \/ ReverseReturn
  \/ CompletionReturn
  \/ NextResult
  \/ NextLocation
  \/ TryGeocodingReturn
  \/ TryPlacesSearchReturn

Spec == Init /\ [][Next]_vars

\* ------------------------------------------------------------------------
\* The map UI: its search handlers, for overlapping searches
\* ------------------------------------------------------------------------

UIQueries == {<<>>, <<" ">>, <<"q">>}

\* A place of a response, as the resolver fills it.
UIPlace ==
  [name |-> <<"C","a","f","e">>, lat |-> 640, lng |-> 6870,
   address |-> <<"M","G"," ","R","d">>, rating |-> <<45>>, place_id |-> "p1"]

\* What the fetch of /api/search and response.json() come to: the fetch
\* throws, the status is not ok, the body is no JSON, or the body of a
\* success response of either route.
UIResponses ==
  {NetworkError, NotOk, BadJson,
   Json(OkResponse(<<StringContent(<<"T","r","y"," ","i","t">>)>>, FALSE, <<>>)),
   Json(OkResponse(<<StringContent(<<"*","*","C","a","f","e","*","*">>)>>, TRUE, <<UIPlace>>))}

\* The one entry of searchResults after a failed search.
SearchErrorResults ==
  <<StringContent(<<"A","n"," ","e","r","r","o","r"," ","o","c","c","u","r","r","e","d"," ","w","h","i","l","e"," ","f","e","t","c","h","i","n","g"," ","s","e","a","r","c","h"," ","r","e","s","u","l","t","s",".">>)>>

\* !searchQuery.trim()
queryBlank(query) == trim(query) = <<>>

\* The markers of the places of a response: id place-<idx>, the name, the
\* position, and a description of the address and, if any, the rating.
placeMarkers(pl) ==
  [idx \in 1..Len(pl) |->
     [id |-> idx - 1,
      name |-> IF pl[idx].name # <<>> THEN pl[idx].name
               ELSE <<"U","n","k","n","o","w","n"," ","L","o","c","a","t","i","o","n">>,
      lat |-> pl[idx].lat,
      lng |-> pl[idx].lng,
      description |->
        [text |-> IF pl[idx].address # <<>> THEN pl[idx].address
                  ELSE <<"L","o","c","a","t","i","o","n"," ","f","o","u","n","d">>,
         rating |-> ratingOrNull(pl[idx].rating)]]]

InitUI ==
  /\ InitRouteIdle
  /\ exText = <<>>
  /\ exSpans = <<>>
  /\ exFresh = 0
  /\ exExtra = 0
  /\ exPc = "idle"
  /\ exOut = <<>>
  /\ platform \in {"searchOnly", "withMarkers"}
  /\ searchQuery = <<>>
  /\ isSearchExpanded = FALSE
  /\ isLoading = FALSE
  /\ searchResults = <<>>
  /\ showResults = FALSE
  /\ searchMarkers = <<>>
  /\ searchPc = [k \in 1..MaxSearches |-> "idle"]
  /\ uiResponse = [k \in 1..MaxSearches |-> <<>>]

\* handleSearchChange
handleSearchChange ==
  /\ \E q \in UIQueries \ {searchQuery} : searchQuery' = q
  /\ UNCHANGED <<platform, isSearchExpanded, isLoading, searchResults, showResults,
                 searchMarkers, searchPc, uiResponse, routeVars, exVars>>

\* A catch that is not followed by the finally.
searchFailedWithoutFinally(k) ==
  /\ searchResults' = SearchErrorResults
  /\ UNCHANGED isLoading
  /\ searchPc' = [searchPc EXCEPT ![k] = "settled"]
  /\ UNCHANGED searchMarkers

\* catch { setSearchResults([...]) } finally { setIsLoading(false) }
searchFailed(k) ==
  /\ searchResults' = SearchErrorResults
  /\ isLoading' = FALSE
  /\ searchPc' = [searchPc EXCEPT ![k] = "settled"]
  /\ UNCHANGED searchMarkers

\* handleSearch (handleSearchSubmit of the UI without markers) up to its
\* await of the fetch: a blank query clears the results and returns; another
\* starts the next search.
handleSearch ==
  /\ IF queryBlank(searchQuery)
     THEN /\ searchResults' = <<>>
          /\ UNCHANGED <<isLoading, showResults, searchPc>>
     ELSE /\ \E k \in 1..MaxSearches :
               /\ searchPc[k] = "idle"
               /\ \A j \in 1..(k - 1) : searchPc[j] # "idle"
               /\ searchPc' = [searchPc EXCEPT ![k] = "awaitFetch"]
          /\ isLoading' = TRUE
          /\ searchResults' = <<>>
          /\ showResults' = IF platform = "withMarkers" THEN TRUE ELSE showResults
  /\ UNCHANGED <<platform, searchQuery, isSearchExpanded, searchMarkers, uiResponse,
                 routeVars, exVars>>

\* The form is submitted.
handleSearchSubmit == handleSearch

\* The search button: it opens the search field, or searches when the field
\* is open and the query is not blank.
handleSearchButtonClick ==
  /\ platform = "withMarkers"
  /\ IF ~isSearchExpanded
     THEN /\ isSearchExpanded' = TRUE
          /\ UNCHANGED <<platform, searchQuery, isLoading, searchResults, showResults,
                         searchMarkers, searchPc, uiResponse, routeVars, exVars>>
     ELSE /\ ~queryBlank(searchQuery)
          /\ handleSearch

\* The fetch of a search settles.
ServerResponds ==
  /\ \E k \in 1..MaxSearches :
       /\ searchPc[k] = "awaitFetch"
       /\ uiResponse[k] = <<>>
       /\ \E r \in UIResponses : uiResponse' = [uiResponse EXCEPT ![k] = <<r>>]
  /\ UNCHANGED <<platform, searchQuery, isSearchExpanded, isLoading, searchResults,
                 showResults, searchMarkers, searchPc, routeVars, exVars>>

\* handleSearch after its fetch: a fetch that threw or a status that is not
\* ok goes to the catch and the finally; otherwise response.json() is awaited.
FetchReturn ==
  /\ \E k \in 1..MaxSearches :
       /\ searchPc[k] = "awaitFetch"
       /\ uiResponse[k] # <<>>
       /\ IF uiResponse[k][1].threw \/ ~uiResponse[k][1].ok
          THEN /\ searchFailed(k)
               /\ uiResponse' = [uiResponse EXCEPT ![k] = <<>>]
          ELSE /\ searchPc' = [searchPc EXCEPT ![k] = "awaitJson"]
               /\ UNCHANGED <<isLoading, searchResults, searchMarkers, uiResponse>>
  /\ UNCHANGED <<platform, searchQuery, isSearchExpanded, showResults,
                 routeVars, exVars>>

\* handleSearch after response.json(): the results, the markers of the places
\* (in the UI that has them), or the catch; then the finally.
JsonReturn ==
  /\ \E k \in 1..MaxSearches :
       /\ searchPc[k] = "awaitJson"
       /\ uiResponse' = [uiResponse EXCEPT ![k] = <<>>]
       /\ IF ~uiResponse[k][1].parses
          THEN searchFailed(k)
          ELSE LET data == uiResponse[k][1].data[1] IN
               /\ searchResults' = data.results
               /\ searchMarkers' =
                    IF platform = "withMarkers" /\ data.hasPlaces
                    THEN placeMarkers(data.places) ELSE searchMarkers
               /\ isLoading' = FALSE
               /\ searchPc' = [searchPc EXCEPT ![k] = "settled"]
  /\ UNCHANGED <<platform, searchQuery, isSearchExpanded, showResults,
                 routeVars, exVars>>

\* closeResults
closeResults ==
  /\ platform = "withMarkers"
  /\ showResults' = FALSE
  /\ searchResults' = <<>>
  /\ searchQuery' = <<>>
  /\ isSearchExpanded' = FALSE
  /\ searchMarkers' = <<>>
  /\ UNCHANGED <<platform, isLoading, searchPc, uiResponse, routeVars, exVars>>

NextUI ==
  \/ handleSearchChange
  \/ handleSearchSubmit
  \/ handleSearchButtonClick
  \/ ServerResponds
  \/ FetchReturn
  \/ JsonReturn
  \/ closeResults

UISpec == InitUI /\ [][NextUI]_vars

\* ------------------------------------------------------------------------
\* Claims about the search route (checked under Spec)
\* ------------------------------------------------------------------------

Done == pc = "done"

Reply == response[1]

Success == Done /\ Reply.status = 200

\* A query parameter or environment variable that is missing or empty.
MissingOrEmpty(p) == ~p.present \/ p.value = <<>>

\* A query that is absent, empty or only whitespace.
BlankQuery ==
  \/ ~request.query.present
  \/ \A i \in 1..Len(request.query.value) : request.query.value[i] = " "

BothCoordinates == ~MissingOrEmpty(request.lat) /\ ~MissingOrEmpty(request.lng)

CallsOf(kinds) == {i \in 1..Len(calls) : calls[i].kind \in kinds}

\* The completion call succeeded and every choice of its body has a message.
CompletionSucceeded ==
  /\ completion # <<>>
  /\ completion[1].ok
  /\ completion[1].parses
  /\ \A i \in 1..Len(completion[1].data[1].choices) :
       completion[1].data[1].choices[i].hasMessage

\* The contents of the completion's choices, in order.
AnswerContents ==
  IF completion[1].data[1].hasChoices
  THEN [i \in 1..Len(completion[1].data[1].choices) |->
          completion[1].data[1].choices[i].content]
  ELSE <<>>

InRegion(p) == p.lat >= 640 /\ p.lat <= 3760 /\ p.lng >= 6870 /\ p.lng <= 9725

\* C1: every place the resolver collects, and every place of a response, has
\* lat within [6.4, 37.6] and lng within [68.7, 97.25], bounds inclusive.
C1_PlacesInRegion ==
  /\ \A i \in 1..Len(places) : InRegion(places[i])
  /\ response # <<>> => \A i \in 1..Len(Reply.places) : InRegion(Reply.places[i])

\* A response with a place on a corner of the region, after a lookup of the
\* same request that gave no place.
C1_Witness ==
  /\ Success
  /\ \E i \in 1..Len(Reply.places) :
       Reply.places[i].lat = 640 /\ Reply.places[i].lng = 6870
  /\ Cardinality(CallsOf({"places"})) > 0

\* C2: in every success response no two entries of places have the same
\* place_id.
C2_UniquePlaceId ==
  Success =>
    \A i, j \in 1..Len(Reply.places) :
      i # j => Reply.places[i].place_id # Reply.places[j].place_id

\* C3: when the query is non-empty, the completion provider's key is present
\* and the completion call succeeds, the response is 200 and its results are
\* the answers, whatever happens in the enrichment step.
C3_EnrichmentNeverFails ==
  (Done /\ route = "places" /\ CompletionSucceeded) =>
    /\ Reply.status = 200
    /\ Reply.results = AnswerContents

\* C4: with a non-empty query and lat or lng missing or empty, no
\* reverse-geocoding, geocoding or place-search call is made, and a success
\* response has places present and empty.
C4_NoCoordinatesNoPlaces ==
  (route = "places" /\ ~MissingOrEmpty(request.query) /\ ~BothCoordinates) =>
    /\ CallsOf({"reverse", "geocoding", "places"}) = {}
    /\ Success => Reply.hasPlaces /\ Reply.places = <<>>

\* A success response to a request with one coordinate only, whose answers
\* emphasise a place and whose maps key is set.
C4_Witness ==
  /\ Success
  /\ route = "places"
  /\ ~MissingOrEmpty(request.lat)
  /\ MissingOrEmpty(request.lng)
  /\ ~MissingOrEmpty(env.NEXT_PUBLIC_GOOGLE_MAPS_API_KEY)
  /\ \E i \in 1..Len(Reply.results) :
       Reply.results[i].isString
       /\ extractLocationsFromText(Reply.results[i].text) # <<>>
  /\ Reply.hasPlaces /\ Reply.places = <<>>

\* C5: a request whose query is absent, empty or only whitespace gets 400
\* { error: "No query provided." } and makes no outbound call, whatever the
\* coordinates and the credentials.
C5_BlankQueryIs400 ==
  BlankQuery =>
    /\ pc \in {"start", "done"}
    /\ calls = <<>>
    /\ Done => response = <<ErrorResponse(400, "No query provided.")>>

\* The reply to a whitespace query with coordinates and both keys set.
C5_Witness ==
  /\ Done
  /\ request.query = Given(<<" ">>)
  /\ BothCoordinates
  /\ ~MissingOrEmpty(env.PERPLEXITY_API_KEY)
  /\ ~MissingOrEmpty(env.NEXT_PUBLIC_GOOGLE_MAPS_API_KEY)
  /\ Reply.status = 400

\* C6: with the completion provider's key missing and a non-empty query, the
\* response is 500 "Server configuration error." and no outbound call is
\* attempted, also with coordinates.
C6_MissingKeyIs500 ==
  (~BlankQuery /\ MissingOrEmpty(env.PERPLEXITY_API_KEY)) =>
    /\ pc \in {"start", "done"}
    /\ calls = <<>>
    /\ Done => response = <<ErrorResponse(500, "Server configuration error.")>>

\* The reply to a request with coordinates when the key is the empty string.
C6_Witness ==
  /\ Done
  /\ ~BlankQuery
  /\ env.PERPLEXITY_API_KEY = Given(<<>>)
  /\ BothCoordinates
  /\ route = "places"
  /\ Reply.status = 500

\* C7: with the geocoding key missing the resolver makes no lookup and
\* returns no place, and the request still succeeds with 200 and all answers
\* in results.
C7_NoMapsKeyNoLookup ==
  (route = "places" /\ MissingOrEmpty(env.NEXT_PUBLIC_GOOGLE_MAPS_API_KEY)) =>
    /\ CallsOf({"geocoding", "places"}) = {}
    /\ places = <<>>
    /\ (Done /\ CompletionSucceeded) =>
         /\ Reply.status = 200
         /\ Reply.hasPlaces /\ Reply.places = <<>>
         /\ Reply.results = AnswerContents

\* The reply to a request with coordinates and answers that emphasise a
\* place, the geocoding key missing: geocodePlaces was called and gave up.
C7_Witness ==
  /\ Success
  /\ route = "places"
  /\ BothCoordinates
  /\ MissingOrEmpty(env.NEXT_PUBLIC_GOOGLE_MAPS_API_KEY)
  /\ \E i \in 1..Len(Reply.results) :
       Reply.results[i].isString
       /\ extractLocationsFromText(Reply.results[i].text) # <<>>
  /\ \E i \in 1..Len(console) : console[i].message = "Google Maps API key not found"

\* The lookup awaited failed: a network error or a non-success response.
LookupFailed == fetched # <<>> /\ (fetched[1].threw \/ ~fetched[1].ok)

IsPrefix(a, b) == Len(a) <= Len(b) /\ SubSeq(b, 1, Len(a)) = a

\* The candidates of all answers, as the extractor gives them.
AllCandidates ==
  UNION {{extractLocationsFromText(results[i].text)[n] :
            n \in 1..Len(extractLocationsFromText(results[i].text))} :
         i \in {k \in 1..Len(results) : results[k].isString}}

\* C8: a failed lookup is "no result" for that candidate only.  A failed
\* geocoding lookup is followed by the place search for the same candidate; a
\* failed place search by the next candidate; the places resolved so far are
\* kept at every step of the resolver and are in its output; and when the
\* resolver returns, every candidate of every answer has been looked up.
C8_Step ==
  /\ (pc = "awaitGeocoding" /\ LookupFailed /\ fetched' = <<>>) =>
       /\ pc' = "awaitPlaces"
       /\ locIdx' = locIdx /\ locations' = locations
       /\ places' = places
       /\ Len(calls') = Len(calls) + 1
       /\ calls'[Len(calls')].kind = "places"
       /\ IsPrefix(locations[locIdx], calls'[Len(calls')].arg)
  /\ (pc = "awaitPlaces" /\ LookupFailed /\ fetched' = <<>>) =>
       /\ pc' = "nextLocation"
       /\ locIdx' = locIdx + 1 /\ locations' = locations
       /\ places' = places
  /\ (pc \in {"nextResult", "nextLocation", "awaitGeocoding", "awaitPlaces"}) =>
       IsPrefix(places, places')
  /\ (pc = "nextResult" /\ pc' = "done" /\ response'[1].status = 200) =>
       /\ response'[1].places = places
       /\ \A c \in AllCandidates :
            /\ locationKey(c) \in processedLocations
            /\ \E i \in CallsOf({"geocoding"}) : locationKey(calls[i].arg) = locationKey(c)

\* C8: every step of the route treats a failed lookup as "no result" for its
\* candidate only, as C8_Step states.
C8_FailedLookupIsNoResult == [][C8_Step]_vars

\* A response after two candidates: the geocoding lookup of the first threw
\* and its place search resolved it; both lookups of the second threw; the
\* place of the first is the output.
C8_Witness ==
  /\ Success
  /\ \E i \in 1..Len(calls) :
       /\ i + 3 <= Len(calls)
       /\ calls[i].kind = "geocoding" /\ calls[i + 1].kind = "places"
       /\ calls[i + 2].kind = "geocoding" /\ calls[i + 3].kind = "places"
       /\ calls[i].arg # calls[i + 2].arg
       /\ \E n \in 1..Len(console) :
            console[n] = Logged("Geocoding API error", calls[i].arg)
       /\ \E n \in 1..Len(console) :
            console[n] = Logged("Geocoding API error", calls[i + 2].arg)
       /\ \E n \in 1..Len(console) :
            console[n] = Logged("Places API error", calls[i + 2].arg)
       /\ Len(Reply.places) = 1
       /\ Reply.places[1].name = calls[i].arg

\* ------------------------------------------------------------------------
\* Claims about the extractor (checked under ExtractSpec)
\* ------------------------------------------------------------------------

\* The lowercase-trimmed key of a candidate.
LocationKey(location) == trim(toLowerCase(location))

TrimEach(spans) == [i \in 1..Len(spans) |-> trim(spans[i])]

IsAcceptedSpan(c) == Len(c) > 2 /\ ~isGenericText(c)

\* The entries of seq that no earlier entry equals, in order.
RECURSIVE FirstSeenFrom(_, _)
FirstSeenFrom(seq, i) ==
  IF i > Len(seq) THEN <<>>
  ELSE (IF \E j \in 1..(i - 1) : seq[j] = seq[i] THEN <<>> ELSE <<seq[i]>>)
       \o FirstSeenFrom(seq, i + 1)

\* The distinct accepted candidates of the spans written, by first appearance.
DistinctAccepted == FirstSeenFrom(SelectSeq(TrimEach(exSpans), IsAcceptedSpan), 1)

C10_FirstTenInOrder ==
  exPc = "extracted" =>
    LET distinct == DistinctAccepted IN
    /\ Len(exOut) <= 10
    /\ exOut = SubSeq(distinct, 1, IF Len(distinct) < 10 THEN Len(distinct) ELSE 10)

\* An answer with more than 10 distinct accepted candidates and a fragment
\* that is not one, cut to 10.
C10_Witness ==
  /\ exPc = "extracted"
  /\ Len(DistinctAccepted) > 10
  /\ Len(exSpans) > Len(DistinctAccepted)
  /\ Len(exOut) = 10

\* A trimmed span the extractor is to reject: of length 2 or less, or a
\* stop-word in any letter case.
IsRejectedSpan(c) == Len(c) <= 2 \/ toLowerCase(c) \in genericWords

\* C11: the extractor rejects every emphasised span that, trimmed, has length
\* 2 or less or is a stop-word in any letter case, and rejects no other span:
\* a longer span that contains a stop-word is a candidate (one of the output,
\* unless the cap of 10 is reached).  The output is all the resolver reads.
C11_RejectsShortAndGeneric ==
  exPc = "extracted" =>
    \A i \in 1..Len(exSpans) :
      LET c == trim(exSpans[i]) IN
      /\ IsRejectedSpan(c) => ~InSeq(c, exOut)
      /\ (~IsRejectedSpan(c) /\ Len(exOut) < 10) => InSeq(c, exOut)

\* An answer that emphasises place names and a stop-word in capitals, a
\* stop-word inside a longer span or a span that trims to two letters.
C11_Witness ==
  /\ exPc = "extracted"
  /\ Len(exOut) >= 2
  /\ \E i \in 1..Len(exSpans) :
       \/ exSpans[i] = <<"N","E","A","R">> /\ ~InSeq(exSpans[i], exOut)
       \/ exSpans[i] = <<" ","a","b"," ">> /\ ~InSeq(<<"a","b">>, exOut)
       \/ exSpans[i] = <<"B","e","s","t"," ","B","i","r","y","a","n","i">> /\ InSeq(exSpans[i], exOut)

\* ------------------------------------------------------------------------
\* Further claims about the search route (checked under Spec)
\* ------------------------------------------------------------------------

\* The place a place-search result is to give for a candidate.
PlaceFromSearch(location, r) ==
  [name |-> location, lat |-> r.lat, lng |-> r.lng,
   address |-> r.formatted_address,
   rating |-> IF r.rating \in {<<>>, <<0>>} THEN <<>> ELSE r.rating,
   place_id |-> r.place_id]

C12_Step ==
  /\ ( /\ pc = "awaitPlaces"
       /\ fetched # <<>>
       /\ firstResult(fetched[1]) # <<>>
       /\ firstResult(fetched[1])[1].hasGeometry
       /\ InRegion(firstResult(fetched[1])[1]) )
     => /\ places' = Append(places,
                       PlaceFromSearch(locations[locIdx], firstResult(fetched[1])[1]))
        /\ \A i \in 1..Len(places) : places[i].name # locations[locIdx]
  /\ (pc = "nextResult" /\ pc' = "done" /\ response'[1].status = 200)
     => response'[1].places = places

\* C12: for a candidate whose geocoding lookup gave no result and whose place
\* search returns a first result inside the region, the resolver adds exactly
\* one place for the candidate, with the candidate as name and the place
\* search's coordinates, address, rating (null when it has none) and
\* place_id; the places of the response are the places the resolver collected.
C12_PlaceSearchFallbackResolves == [][C12_Step]_vars

\* A response with a place that only a place search gives: a rating and the
\* provider's address, after a geocoding lookup that threw for the candidate.
C12_Witness ==
  /\ Success
  /\ \E i \in 1..Len(Reply.places) :
       /\ Reply.places[i].rating = <<45>>
       /\ Reply.places[i].address = <<"M","G"," ","R","d">>
       /\ \E j \in 1..Len(console) :
            console[j] = Logged("Geocoding API error", Reply.places[i].name)

ErrorEnvelopes ==
  {ErrorResponse(400, "No query provided."),
   ErrorResponse(500, "Server configuration error."),
   ErrorResponse(500, "Failed to fetch results."),
   ErrorResponse(500, "Internal server error.")}

InternalError == ErrorResponse(500, "Internal server error.")

\* GET's catch ran: it logs before it replies.
CatchRan == \E i \in 1..Len(console) : console[i] = Logged("Error in /api/search:", <<>>)

\* The completion's fetch or the parsing of its body threw, or, in the route
\* that reads choice.message.content, a choice of the body has no message.
CompletionStepThrew ==
  /\ completion # <<>>
  /\ \/ completion[1].threw
     \/ completion[1].ok /\ ~completion[1].parses
     \/ /\ route = "places"
        /\ ~completion[1].threw /\ completion[1].ok /\ completion[1].parses
        /\ \E i \in 1..Len(completion[1].data[1].choices) :
             ~completion[1].data[1].choices[i].hasMessage

\* What the replies have in common in both routes.
EnvelopeRules ==
  /\ Reply.status = 400 => BlankQuery
  /\ CompletionStepThrew => Reply = InternalError
  /\ CatchRan <=> Reply = InternalError

CompletionNotOk == completion # <<>> /\ ~completion[1].threw /\ ~completion[1].ok

\* C14: when the completion provider answers with a non-success status the
\* reply is 500 "Failed to fetch results." without results or places and no
\* geocoding or place-search call is made; every such call comes after a
\* completion call that succeeded.
C14_FailedCompletionAborts ==
  /\ CompletionNotOk =>
       /\ Done
       /\ response = <<ErrorResponse(500, "Failed to fetch results.")>>
       /\ ~Reply.hasResults /\ ~Reply.hasPlaces
       /\ CallsOf({"geocoding", "places"}) = {}
  /\ \A i \in CallsOf({"geocoding", "places"}) :
       /\ \E j \in 1..(i - 1) : calls[j].kind = "completion"
       /\ completion # <<>>
       /\ ~completion[1].threw /\ completion[1].ok /\ completion[1].parses

\* The reply to a request with coordinates and both keys whose completion
\* call came back with a non-success status.
C14_Witness ==
  /\ Done
  /\ CompletionNotOk
  /\ route = "places"
  /\ BothCoordinates
  /\ ~MissingOrEmpty(env.NEXT_PUBLIC_GOOGLE_MAPS_API_KEY)
  /\ Cardinality(CallsOf({"reverse"})) = 1

C15_Step ==
  ( /\ pc = "awaitGeocoding"
    /\ fetched # <<>>
    /\ firstResult(fetched[1]) # <<>>
    /\ firstResult(fetched[1])[1].hasGeometry
    /\ ~InRegion(firstResult(fetched[1])[1]) )
  => /\ pc' = "nextLocation"
     /\ locIdx' = locIdx + 1
     /\ calls' = calls
     /\ places' = places

\* C15: when the geocoding lookup of a candidate returns a result whose
\* coordinates lie outside the region, the candidate is dropped: the resolver
\* goes on to the next candidate, sends no place-search request for this one
\* and adds no place for it.
C15_OutsideRegionNoFallback == [][C15_Step]_vars

\* The key of a candidate: lower case, trimmed.
KeyOf(location) == trim(toLowerCase(location))

\* The candidate a lookup was sent for: the location itself for a geocoding
\* call, the text before " near <lat>,<lng>" for a place search.
CandidateOf(call) ==
  IF call.kind = "geocoding" THEN call.arg
  ELSE SubSeq(call.arg, 1,
              Len(call.arg) - Len(request.lat.value) - Len(request.lng.value) - 7)

C16_Step ==
  /\ calls' # calls =>
       LET new == calls'[Len(calls')] IN
       /\ SubSeq(calls', 1, Len(calls)) = calls
       /\ new.kind \in {"geocoding", "places"} =>
            \A i \in CallsOf({new.kind}) :
              KeyOf(CandidateOf(calls[i])) # KeyOf(CandidateOf(new))
  /\ places' # places =>
       /\ places' = Append(places, places'[Len(places')])
       /\ \A i \in 1..Len(places) :
            KeyOf(places[i].name) # KeyOf(places'[Len(places')].name)

\* C16: within one request each lowercase-trimmed candidate key is resolved
\* at most once: a geocoding call, a place-search call or a place is only
\* ever added for a key that no earlier call of that kind, or no earlier
\* place, of the request has, however many answers mention the key and in
\* whatever letter case.
C16_OncePerKey == [][C16_Step]_vars

\* A response to two answers that name one place in two letter cases, after
\* one geocoding call and one place search for it.
C16_Witness ==
  /\ Success
  /\ Len(Reply.results) = 2
  /\ Reply.results[1].isString /\ Reply.results[2].isString
  /\ \E a \in 1..Len(extractLocationsFromText(Reply.results[1].text)) :
     \E b \in 1..Len(extractLocationsFromText(Reply.results[2].text)) :
       LET x == extractLocationsFromText(Reply.results[1].text)[a]
           y == extractLocationsFromText(Reply.results[2].text)[b]
       IN /\ x # y
          /\ KeyOf(x) = KeyOf(y)
          /\ Cardinality({i \in CallsOf({"geocoding"}) : KeyOf(calls[i].arg) = KeyOf(x)}) = 1
          /\ Cardinality({i \in CallsOf({"places"}) :
                            KeyOf(CandidateOf(calls[i])) = KeyOf(x)}) = 1

\* ------------------------------------------------------------------------
\* Claims about the reverse-geocoding step (checked under ReverseSpec)
\* ------------------------------------------------------------------------

\* The lookup gave nothing to build a location part from: it threw, its
\* status was not ok, it had no results, or the components of its first
\* result leave every part out.
NoLocationPart(resp) ==
  \/ resp.threw
  \/ ~resp.ok
  \/ ~resp.parses
  \/ resp.data[1].results = <<>>
  \/ locationParts(scanComponents(
       [city |-> <<>>, area |-> <<>>, state |-> <<>>, country |-> <<>>],
       resp.data[1].results[1].address_components)) = <<>>

C17_Step ==
  (pc = "awaitReverse" /\ fetched # <<>>)
  => /\ locationContext' # <<>>
     /\ NoLocationPart(fetched[1])
          => locationContext' =
               <<"c","o","o","r","d","i","n","a","t","e","s"," ">>
                 \o request.lat.value \o <<",", " ">> \o request.lng.value
     /\ pc' = "awaitCompletion"
     /\ response' = <<>>
     /\ calls' = Append(calls, Call("completion", locationContext'))

\* C17: whatever the reverse-geocoding lookup comes to (a thrown error, a
\* non-success status, no results, or results without a usable address
\* component), getLocationDescription returns a non-empty description, which
\* is "coordinates <lat>, <lng>" when no location part could be built, and
\* GET sends the completion request with it instead of replying an error.
C17_ReverseBestEffort == [][C17_Step]_vars

\* The completion request was sent with the coordinates as description after
\* the lookup threw.
C17_Witness ==
  /\ pc = "awaitCompletion"
  /\ \E i \in 1..Len(console) :
       console[i] = Logged("Error getting location description:", <<>>)
  /\ locationContext =
       <<"c","o","o","r","d","i","n","a","t","e","s"," ","1","5",".","3","8",",",
         " ","7","3",".","8","5">>
  /\ calls[Len(calls)] = Call("completion", locationContext)
  /\ response = <<>>

\* ------------------------------------------------------------------------
\* Claims about the map UI (checked under UISpec)
\* ------------------------------------------------------------------------

InFlight(k) == searchPc[k] \in {"awaitFetch", "awaitJson"}

\* The search k settles in this step through the catch: its fetch threw, its
\* status was not ok, or its body was no JSON.
FailsNow(k) ==
  /\ InFlight(k)
  /\ searchPc'[k] = "settled"
  /\ uiResponse[k][1].threw \/ ~uiResponse[k][1].ok \/ ~uiResponse[k][1].parses

C18_Step ==
  /\ \A k \in 1..MaxSearches :
       /\ (searchPc[k] = "idle" /\ searchPc'[k] # "idle")
            => ~queryBlank(searchQuery) /\ InFlight(k)' /\ isLoading'
       /\ (InFlight(k) /\ searchPc'[k] = "settled") => ~isLoading'
       /\ FailsNow(k) => searchResults' = SearchErrorResults
       /\ InFlight(k) => searchPc'[k] # "idle"
  /\ (\A k \in 1..MaxSearches : ~InFlight(k)') => ~isLoading'

\* C18: in the map UI a search started with a non-blank query sets isLoading
\* to true, and when its request settles (a success, a status that is not ok
\* or a thrown error) sets it to false; so, however overlapping searches
\* interleave, isLoading is false whenever no search is in flight, and a
\* search that fails leaves exactly one entry, the error message, in
\* searchResults.
C18_LoadingFollowsSearches == [][C18_Step]_vars

\* Two searches overlapped: the second is still in flight and the flag is
\* already false, the first having failed with its one error message.
C18_Witness ==
  /\ searchPc[1] = "settled"
  /\ InFlight(2)
  /\ ~isLoading
  /\ searchResults = SearchErrorResults

====
